---- MODULE Spec2Model ----
(***************************************************************************)
(* Launch orchestrator of src/lib.rs: the version registry, the two       *)
(* callback slots, the event listeners and the staged future run by       *)
(* start_engine_async, on a single-threaded cooperative event loop.       *)
(*                                                                         *)
(* A launch call is a future.  It runs from one suspension point to the   *)
(* next without interruption; the only code that runs in between is the   *)
(* JS callback it is calling (pack loader, launcher callback or event     *)
(* listener), which may itself call the exported functions.  The program  *)
(* counter of a call is therefore either a suspension point ("spawned",   *)
(* "await_loader", "await_launcher", "done") or the callback it is        *)
(* inside ("in_loader", "in_listener", "in_launcher").                    *)
(***************************************************************************)
EXTENDS Naturals, Sequences, FiniteSets, TLC

\* ------------------------------------------------------------------ bounds
MaxCalls == 2           \* launch calls in one behaviour
MaxOps == 2             \* slot / listener calls in one behaviour (Spec)
MaxEdits == 1           \* add_version / remove_version calls in one behaviour (Spec)

\* ------------------------------------------------------------ value domains
NONE == "none"          \* Option::None, a missing HashMap key, an unset field

DefaultIds == {"1.8", "1.12"}
Ids == {"1.8", "bogus"}                 \* ids the orchestrator is driven with
RegIds == {"1.8", "1.12", "bogus"}      \* ids the registry alone is driven with
NewTargets == {"a.html"}                \* urls given to add_version
RegTargets == {"a.html", "b.html"}      \* urls given to add_version, registry alone
NewInfos == {"custom info"}             \* descriptions given to add_version
Fns == {"f1", "f2"}                     \* JS function values
NotFn == "not_a_function"               \* a JS value that is no function
JsValues == Fns \cup {NotFn}
Events == {"pack_load_failed", "engine_started", "launcher_failed"}
FailVals == {"e1", "e2"}                \* values a callback throws / rejects with

Calls == 1..MaxCalls

VARIABLES
    VERSIONS,           \* HashMap<String,String>: id -> url, NONE when absent
    VERSION_INFOS,      \* HashMap<String,String>: id -> description
    PACK_LOADER,        \* Option<Function>
    LAUNCH_CALLBACK,    \* Option<Function>
    EVENT_LISTENERS,    \* HashMap<String,Function>: event -> listener
    calls,              \* the futures of start_engine_async, one per call
    lastOp,             \* the last exported registry/slot call: its arguments and
                        \* what it returned
    hist,               \* per id, the last registry call made on it (history)
    wanted,             \* per event, the listener the last set_/clear_event_listener
                        \* call asked for (history)
    nops,               \* number of slot/listener calls so far
    nedits              \* number of add_version/remove_version calls so far

vars == <<VERSIONS, VERSION_INFOS, PACK_LOADER, LAUNCH_CALLBACK, EVENT_LISTENERS,
          calls, lastOp, hist, wanted, nops, nedits>>

registry == <<VERSIONS, VERSION_INFOS>>
slots == <<PACK_LOADER, LAUNCH_CALLBACK>>

\* --------------------------------------------------------------- JS objects
\* A JS object built by the future.  obj names the allocation (Object::new())
\* it came from, so that two records are the same object iff obj agrees.
NoObj == [obj |-> NONE, status |-> NONE, message |-> NONE, url |-> NONE, version |-> NONE]

\* lib.rs 229-233, 242-246, 275-279, 288-292: the error object
ErrObj(e, url, ver) ==
    [obj |-> "err_obj", status |-> "error", message |-> e, url |-> url, version |-> ver]

\* lib.rs 255-259: the result object
ResultObj(status, message, url, ver) ==
    [obj |-> "result", status |-> status, message |-> message, url |-> url, version |-> ver]

\* lib.rs 188-194
internal_start_engine_stub(version) ==
    CASE version = "1.8" -> <<"ok", "mc18 engine started (stub)">>
      [] version = "1.12" -> <<"ok", "mc1.12 engine started (stub)">>
      [] OTHER -> <<"error", "unknown version: " \o version>>

\* ----------------------------------------------------------------- registry
\* lib.rs 46-54
list_versions == {k \in DOMAIN VERSIONS : VERSIONS[k] # NONE}

\* lib.rs 85-89
version_info(version) ==
    IF VERSION_INFOS[version] # NONE THEN VERSION_INFOS[version] ELSE "unknown version"

\* lib.rs 93-97
get_launch_url(version) ==
    IF VERSIONS[version] # NONE THEN VERSIONS[version] ELSE "index.html"

\* The future of one call.
\*   pc       where the future is
\*   ver, url the locals of the async block (lib.rs 205, 210)
\*   result   the object built at lib.rs 255, outcome what the promise resolved to
\*   settled  state of the promise returned by start_engine_async
\*   err_obj  the object built at lib.rs 229, 242, 275, 288
\*   event    the event last passed to emit_event
\* and what the outside saw of the call:
\*   events   the emit_event calls made, in order: the event name, the payload
\*            (e or obj), the listener called (to) and the listener the last
\*            set_/clear_event_listener call for the event had asked for (want)
\*   loaded, notified   the calls made to PACK_LOADER / LAUNCH_CALLBACK, each
\*                      <<function called, ver given, url given, registry entry
\*                      of ver at the time of the call>>; an entry of loaded
\*                      also holds what LAUNCH_CALLBACK was when the pack
\*                      loader returned, and whether the last exported call
\*                      before the pack loader was a set_pack_loader that failed
\*   lres, nres         how the pack loader / launcher callback invocation ended:
\*                      "absent" (slot empty), "ok", or the failure value
\*   lwait, nwait       whether the future awaited a promise the callback returned
\*   g_entry  the registry's entry for the id at the moment url was read
\*   threw    whether a listener called for this call threw
NoCall ==
    [pc |-> "idle", ver |-> NONE, url |-> NONE, result |-> NoObj, outcome |-> NoObj,
     settled |-> "pending", event |-> NONE, events |-> <<>>, loaded |-> <<>>,
     notified |-> <<>>, lres |-> NONE, nres |-> NONE, lwait |-> FALSE, nwait |-> FALSE,
     g_entry |-> NONE, threw |-> FALSE, err_obj |-> NoObj]

\* lib.rs 19-36
Init ==
    /\ VERSIONS = [k \in RegIds |->
                     CASE k = "1.8" -> "minecraft_1.8.html"
                       [] k = "1.12" -> "minecraft_1.12.html"
                       [] OTHER -> NONE]
    /\ VERSION_INFOS = [k \in RegIds |->
                     CASE k = "1.8" -> "Minecraft 1.8 engine (stub)"
                       [] k = "1.12" -> "Minecraft 1.12 engine (stub)"
                       [] OTHER -> NONE]
    /\ PACK_LOADER = NONE
    /\ LAUNCH_CALLBACK = NONE
    /\ EVENT_LISTENERS = [ev \in Events |-> NONE]
    /\ calls = [c \in Calls |-> NoCall]
    /\ lastOp = [op |-> NONE, id |-> NONE, ret |-> NONE, prev |-> NONE,
                 url |-> NONE, info |-> NONE, cb |-> NONE]
    /\ hist = [k \in RegIds |-> NONE]
    /\ wanted = [ev \in Events |-> NONE]
    /\ nops = 0
    /\ nedits = 0

\* ------------------------------------------------- exported registry calls
\* Variant of add_version: a call without description resets the description.
add_version_reset_info(version, url, info) ==
    /\ VERSIONS' = [VERSIONS EXCEPT ![version] = url]
    /\ VERSION_INFOS' = [VERSION_INFOS EXCEPT ![version] = info]
    /\ lastOp' = [op |-> "add_version", id |-> version, ret |-> "true",
                  prev |-> hist[version],
                  url |-> url, info |-> info, cb |-> NONE]
    /\ hist' = [hist EXCEPT ![version] = "add"]
    /\ UNCHANGED <<slots, EVENT_LISTENERS, wanted, calls>>

\* Variant of add_version: a call with a description stores the description
\* alone and leaves the target as it is.
add_version_info_only(version, url, info) ==
    /\ VERSIONS' = IF info = NONE THEN [VERSIONS EXCEPT ![version] = url] ELSE VERSIONS
    /\ VERSION_INFOS' = IF info # NONE THEN [VERSION_INFOS EXCEPT ![version] = info]
                        ELSE VERSION_INFOS
    /\ lastOp' = [op |-> "add_version", id |-> version, ret |-> "true",
                  prev |-> hist[version],
                  url |-> url, info |-> info, cb |-> NONE]
    /\ hist' = [hist EXCEPT ![version] = "add"]
    /\ UNCHANGED <<slots, EVENT_LISTENERS, wanted, calls>>

\* lib.rs 58-68.  info is NONE when the Option<String> is None.
add_version(version, url, info) ==
    /\ VERSIONS' = [VERSIONS EXCEPT ![version] = url]
    /\ VERSION_INFOS' = IF info # NONE THEN [VERSION_INFOS EXCEPT ![version] = info]
                        ELSE VERSION_INFOS
    /\ lastOp' = [op |-> "add_version", id |-> version, ret |-> "true",
                  prev |-> hist[version],
                  url |-> url, info |-> info, cb |-> NONE]
    /\ hist' = [hist EXCEPT ![version] = "add"]
    /\ UNCHANGED <<slots, EVENT_LISTENERS, wanted, calls>>

\* Variant of remove_version: reports whether a description was removed.
remove_version_by_info(version) ==
    LET removed == VERSION_INFOS[version] # NONE IN
    /\ VERSIONS' = [VERSIONS EXCEPT ![version] = NONE]
    /\ VERSION_INFOS' = [VERSION_INFOS EXCEPT ![version] = NONE]
    /\ lastOp' = [op |-> "remove_version", id |-> version,
                  ret |-> IF removed THEN "true" ELSE "false", prev |-> hist[version],
                  url |-> NONE, info |-> NONE, cb |-> NONE]
    /\ hist' = [hist EXCEPT ![version] = "remove"]
    /\ UNCHANGED <<slots, EVENT_LISTENERS, wanted, calls>>

\* Variant of remove_version: leaves the description in VERSION_INFOS.
remove_version_keep_info(version) ==
    LET removed == VERSIONS[version] # NONE IN
    /\ VERSIONS' = [VERSIONS EXCEPT ![version] = NONE]
    /\ VERSION_INFOS' = VERSION_INFOS
    /\ lastOp' = [op |-> "remove_version", id |-> version,
                  ret |-> IF removed THEN "true" ELSE "false", prev |-> hist[version],
                  url |-> NONE, info |-> NONE, cb |-> NONE]
    /\ hist' = [hist EXCEPT ![version] = "remove"]
    /\ UNCHANGED <<slots, EVENT_LISTENERS, wanted, calls>>

\* lib.rs 72-81
remove_version(version) ==
    LET removed == VERSIONS[version] # NONE IN
    /\ VERSIONS' = [VERSIONS EXCEPT ![version] = NONE]
    /\ VERSION_INFOS' = [VERSION_INFOS EXCEPT ![version] = NONE]
    /\ lastOp' = [op |-> "remove_version", id |-> version,
                  ret |-> IF removed THEN "true" ELSE "false", prev |-> hist[version],
                  url |-> NONE, info |-> NONE, cb |-> NONE]
    /\ hist' = [hist EXCEPT ![version] = "remove"]
    /\ UNCHANGED <<slots, EVENT_LISTENERS, wanted, calls>>

\* ----------------------------------------------------- slots and listeners
\* JsValue::is_function
is_function(cb) == cb \in Fns

\* lib.rs 114-124
set_launcher_callback(cb) ==
    /\ IF is_function(cb)
       THEN /\ LAUNCH_CALLBACK' = cb
            /\ lastOp' = [op |-> "set_launcher_callback", id |-> NONE, ret |-> "ok", prev |-> NONE,
                          url |-> NONE, info |-> NONE, cb |-> cb]
       ELSE /\ LAUNCH_CALLBACK' = LAUNCH_CALLBACK
            /\ lastOp' = [op |-> "set_launcher_callback", id |-> NONE, ret |-> "err", prev |-> NONE,
                          url |-> NONE, info |-> NONE, cb |-> cb]
    /\ UNCHANGED <<registry, PACK_LOADER, EVENT_LISTENERS, wanted, calls, hist>>

\* Variant of set_pack_loader: stores the value without the is_function check.
set_pack_loader_unchecked(cb) ==
    /\ PACK_LOADER' = cb
    /\ lastOp' = [op |-> "set_pack_loader", id |-> NONE, ret |-> "ok", prev |-> NONE,
                  url |-> NONE, info |-> NONE, cb |-> cb]
    /\ UNCHANGED <<registry, LAUNCH_CALLBACK, EVENT_LISTENERS, wanted, calls, hist>>

\* lib.rs 130-140
set_pack_loader(cb) ==
    /\ IF is_function(cb)
       THEN /\ PACK_LOADER' = cb
            /\ lastOp' = [op |-> "set_pack_loader", id |-> NONE, ret |-> "ok", prev |-> NONE,
                          url |-> NONE, info |-> NONE, cb |-> cb]
       ELSE /\ PACK_LOADER' = PACK_LOADER
            /\ lastOp' = [op |-> "set_pack_loader", id |-> NONE, ret |-> "err", prev |-> NONE,
                          url |-> NONE, info |-> NONE, cb |-> cb]
    /\ UNCHANGED <<registry, LAUNCH_CALLBACK, EVENT_LISTENERS, wanted, calls, hist>>

\* lib.rs 144-146
clear_launcher_callback ==
    /\ LAUNCH_CALLBACK' = NONE
    /\ lastOp' = [op |-> "clear_launcher_callback", id |-> NONE, ret |-> "ok", prev |-> NONE,
                  url |-> NONE, info |-> NONE, cb |-> NONE]
    /\ UNCHANGED <<registry, PACK_LOADER, EVENT_LISTENERS, wanted, calls, hist>>

\* lib.rs 150-152
clear_pack_loader ==
    /\ PACK_LOADER' = NONE
    /\ lastOp' = [op |-> "clear_pack_loader", id |-> NONE, ret |-> "ok", prev |-> NONE,
                  url |-> NONE, info |-> NONE, cb |-> NONE]
    /\ UNCHANGED <<registry, LAUNCH_CALLBACK, EVENT_LISTENERS, wanted, calls, hist>>

\* lib.rs 179-183: emit_event keeps the RefCell of EVENT_LISTENERS borrowed
\* while the listener runs.
ListenersBorrowed == \E c \in Calls : calls[c].pc = "in_listener"

\* lib.rs 157-166.  borrow_mut() on a borrowed RefCell panics: the call traps
\* and changes nothing.
set_event_listener(event, cb) ==
    /\ IF ~is_function(cb)
       THEN /\ EVENT_LISTENERS' = EVENT_LISTENERS
            /\ lastOp' = [op |-> "set_event_listener", id |-> event, ret |-> "err", prev |-> NONE,
                          url |-> NONE, info |-> NONE, cb |-> cb]
       ELSE IF ListenersBorrowed
       THEN /\ EVENT_LISTENERS' = EVENT_LISTENERS
            /\ lastOp' = [op |-> "set_event_listener", id |-> event, ret |-> "panic", prev |-> NONE,
                          url |-> NONE, info |-> NONE, cb |-> cb]
       ELSE /\ EVENT_LISTENERS' = [EVENT_LISTENERS EXCEPT ![event] = cb]
            /\ lastOp' = [op |-> "set_event_listener", id |-> event, ret |-> "ok", prev |-> NONE,
                          url |-> NONE, info |-> NONE, cb |-> cb]
    /\ wanted' = IF is_function(cb) THEN [wanted EXCEPT ![event] = cb] ELSE wanted
    /\ UNCHANGED <<registry, slots, calls, hist>>

\* lib.rs 170-174
clear_event_listener(event) ==
    /\ IF ListenersBorrowed
       THEN /\ EVENT_LISTENERS' = EVENT_LISTENERS
            /\ lastOp' = [op |-> "clear_event_listener", id |-> event, ret |-> "panic", prev |-> NONE,
                          url |-> NONE, info |-> NONE, cb |-> NONE]
       ELSE /\ EVENT_LISTENERS' = [EVENT_LISTENERS EXCEPT ![event] = NONE]
            /\ lastOp' = [op |-> "clear_event_listener", id |-> event, ret |-> "ok", prev |-> NONE,
                          url |-> NONE, info |-> NONE, cb |-> NONE]
    /\ wanted' = [wanted EXCEPT ![event] = NONE]
    /\ UNCHANGED <<registry, slots, calls, hist>>

\* ------------------------------------------------ stages of the async block
\* Variant of Resolve: an error object is returned as Err(v), which rejects.
ResolveOrReject(rec, v) ==
    IF v.status = "error"
    THEN [rec EXCEPT !.pc = "done", !.settled = "rejected", !.outcome = v]
    ELSE [rec EXCEPT !.pc = "done", !.settled = "resolved", !.outcome = v]

\* lib.rs 236, 248, 281, 294, 300: the async block returns Ok(v), and
\* future_to_promise resolves the promise with v.
Resolve(rec, v) ==
    [rec EXCEPT !.pc = "done", !.settled = "resolved", !.outcome = v]

\* lib.rs 299-300
Complete(rec) == Resolve(rec, rec.result)

\* Variant of NotifyStage: looks the url up again for the callback.
NotifyStageReResolve(rec) ==
    IF LAUNCH_CALLBACK = NONE
    THEN Complete([rec EXCEPT !.nres = "absent"])
    ELSE [rec EXCEPT !.pc = "in_launcher",
                     !.notified = Append(@, <<LAUNCH_CALLBACK, rec.ver,
                                              get_launch_url(rec.ver), VERSIONS[rec.ver]>>)]

\* Variant of NotifyStage: calls the launcher callback that was in the slot
\* before the future awaited its pack loader.
NotifyStageEarlyRead(rec) ==
    LET cb == IF rec.loaded # <<>> THEN rec.loaded[1][5] ELSE LAUNCH_CALLBACK IN
    IF cb = NONE
    THEN Complete([rec EXCEPT !.nres = "absent"])
    ELSE [rec EXCEPT !.pc = "in_launcher",
                     !.notified = Append(@, <<cb, rec.ver, rec.url, VERSIONS[rec.ver]>>)]

\* lib.rs 264-268: read the slot, call the callback with (ver, url)
NotifyStage(rec) ==
    IF LAUNCH_CALLBACK = NONE
    THEN Complete([rec EXCEPT !.nres = "absent"])
    ELSE [rec EXCEPT !.pc = "in_launcher",
                     !.notified = Append(@, <<LAUNCH_CALLBACK, rec.ver, rec.url,
                                              VERSIONS[rec.ver]>>)]

\* Variant of AfterEmit: the async block goes on to the launcher callback after
\* any event, a failure event included.
AfterEmitAlwaysNotify(rec) == NotifyStage(rec)

\* What the async block does once emit_event(rec.event, ..) has returned:
\* lib.rs 236, 248, 281, 294 after a failure event, 264 after "engine_started".
AfterEmit(rec) ==
    IF rec.event = "engine_started" THEN NotifyStage(rec) ELSE Resolve(rec, rec.err_obj)

\* lib.rs 178-184: e is the payload of a failure event, obj of "engine_started".
\* With a listener registered the future is inside it; with none it goes on.
emit_event(rec, event, e, obj) ==
    LET r1 == [rec EXCEPT !.event = event,
                          !.events = Append(@, [name |-> event, e |-> e, obj |-> obj,
                                                to |-> EVENT_LISTENERS[event],
                                                want |-> wanted[event]])]
    IN  IF EVENT_LISTENERS[event] # NONE THEN [r1 EXCEPT !.pc = "in_listener"]
        ELSE AfterEmit(r1)

\* lib.rs 229-236, 242-248 (event "pack_load_failed"),
\* 275-281, 288-294 (event "launcher_failed")
Fail(rec, e, event) ==
    emit_event([rec EXCEPT !.err_obj = ErrObj(e, rec.url, rec.ver)], event, e, NoObj)

\* Variant of EngineStage: emits "engine_started" only for status "ok".
EngineStageOkOnly(rec) ==
    LET sm == internal_start_engine_stub(rec.ver)
        result == ResultObj(sm[1], sm[2], rec.url, rec.ver)
    IN  IF sm[1] = "ok"
        THEN emit_event([rec EXCEPT !.result = result], "engine_started", NONE, result)
        ELSE NotifyStage([rec EXCEPT !.result = result])

\* lib.rs 251-262
EngineStage(rec) ==
    LET sm == internal_start_engine_stub(rec.ver)
        result == ResultObj(sm[1], sm[2], rec.url, rec.ver)
    IN  emit_event([rec EXCEPT !.result = result], "engine_started", NONE, result)

\* Variant of ResolveStage: the version is kept in one place shared by all
\* calls, so the url is that of the call launched last.
ResolveStageShared(c) ==
    LET last == CHOOSE d \in Calls :
                    /\ calls[d].pc # "idle"
                    /\ \A x \in Calls : calls[x].pc # "idle" => x <= d
    IN  [calls[c] EXCEPT !.url = get_launch_url(calls[last].ver),
                         !.g_entry = VERSIONS[calls[c].ver]]

\* lib.rs 210-212: the url of the call's own version, read once
ResolveStage(c) ==
    [calls[c] EXCEPT !.url = get_launch_url(calls[c].ver),
                     !.g_entry = VERSIONS[calls[c].ver]]

\* lib.rs 215-222: read the slot, call the loader with (ver, url)
PackLoadStage(rec) ==
    IF PACK_LOADER = NONE
    THEN EngineStage([rec EXCEPT !.lres = "absent"])
    ELSE [rec EXCEPT !.pc = "in_loader",
                     !.loaded = Append(@, <<PACK_LOADER, rec.ver, rec.url,
                                            VERSIONS[rec.ver], LAUNCH_CALLBACK,
                                            lastOp.op = "set_pack_loader"
                                               /\ lastOp.ret = "err">>)]

\* Variant of ListenerResult: the listener's exception is propagated with `?`.
ListenerResultPropagate(rec, threw) ==
    IF threw
    THEN [rec EXCEPT !.threw = TRUE, !.pc = "done", !.settled = "rejected"]
    ELSE AfterEmit(rec)

\* lib.rs 181: `let _ =` drops what the listener returned or threw
ListenerResult(rec, threw) == AfterEmit([rec EXCEPT !.threw = @ \/ threw])

\* lib.rs 219-240: r is "value" (a non-Promise return), "promise", or the value thrown
LoaderResult(rec, r) ==
    LET r0 == [rec EXCEPT !.loaded[Len(rec.loaded)][5] = LAUNCH_CALLBACK] IN
    CASE r = "value" -> EngineStage([r0 EXCEPT !.lres = "ok"])
      [] r = "promise" -> [r0 EXCEPT !.pc = "await_loader", !.lwait = TRUE]
      [] OTHER -> Fail([r0 EXCEPT !.lres = r], r, "pack_load_failed")

\* Variant of LoaderSettled: the `return` after emit_event is missing.
LoaderSettledFallThrough(rec, r) ==
    IF r = "resolve" THEN EngineStage([rec EXCEPT !.lres = "ok"])
    ELSE EngineStage([rec EXCEPT
            !.lres = r,
            !.err_obj = ErrObj(r, rec.url, rec.ver),
            !.events = Append(@, [name |-> "pack_load_failed", e |-> r, obj |-> NoObj,
                                  to |-> EVENT_LISTENERS["pack_load_failed"],
                                  want |-> wanted["pack_load_failed"]])])

\* Variant of LoaderSettled: a call whose pack loader was cleared while it
\* waited is dropped, it stays where it is.
LoaderSettledUnlessCleared(rec, r) ==
    IF PACK_LOADER = NONE THEN rec
    ELSE IF r = "resolve" THEN EngineStage([rec EXCEPT !.lres = "ok"])
    ELSE Fail([rec EXCEPT !.lres = r], r, "pack_load_failed")

\* lib.rs 228-238: r is "resolve" or the rejection value
LoaderSettled(rec, r) ==
    IF r = "resolve" THEN EngineStage([rec EXCEPT !.lres = "ok"])
    ELSE Fail([rec EXCEPT !.lres = r], r, "pack_load_failed")

\* Variant of LauncherResult: on a throw the result object is overwritten and
\* returned instead of a new error object.
LauncherResultReuse(rec, r) ==
    CASE r = "value" -> Complete([rec EXCEPT !.nres = "ok"])
      [] r = "promise" -> [rec EXCEPT !.pc = "await_launcher", !.nwait = TRUE]
      [] OTHER -> emit_event([rec EXCEPT !.nres = r,
                                         !.err_obj = [rec.result EXCEPT !.status = "error",
                                                                        !.message = r]],
                             "launcher_failed", r, NoObj)

\* lib.rs 268-296
LauncherResult(rec, r) ==
    CASE r = "value" -> Complete([rec EXCEPT !.nres = "ok"])
      [] r = "promise" -> [rec EXCEPT !.pc = "await_launcher", !.nwait = TRUE]
      [] OTHER -> Fail([rec EXCEPT !.nres = r], r, "launcher_failed")

\* lib.rs 273-283
LauncherSettled(rec, r) ==
    IF r = "resolve" THEN Complete([rec EXCEPT !.nres = "ok"])
    ELSE Fail([rec EXCEPT !.nres = r], r, "launcher_failed")

\* ------------------------------------------------------ steps of the futures
Running == {c \in Calls : calls[c].pc \in {"in_loader", "in_listener", "in_launcher"}}

Step(c, rec) ==
    /\ calls' = [calls EXCEPT ![c] = rec]
    /\ UNCHANGED <<registry, slots, EVENT_LISTENERS, wanted, lastOp, hist, nops, nedits>>

\* lib.rs 204-208, 306-308: start_engine_async / start_engine copy the id and
\* queue the future; nothing of the async block has run when they return.
Launch(c, id) ==
    /\ calls[c].pc = "idle"
    /\ \A d \in Calls : d < c => calls[d].pc # "idle"
    /\ Step(c, [calls[c] EXCEPT !.pc = "spawned", !.ver = id])

\* Variant of Poll: a queued future is polled at any moment, also while
\* another future is inside a callback.
PollAnytime(c) ==
    /\ calls[c].pc = "spawned"
    /\ Step(c, PackLoadStage(ResolveStage(c)))

\* first poll of the future, from the microtask queue: lib.rs 208-222 and on
Poll(c) ==
    /\ calls[c].pc = "spawned"
    /\ Running = {}
    /\ Step(c, PackLoadStage(ResolveStage(c)))

\* the pack loader returns or throws: lib.rs 218-249
LoaderReturns(c, r) ==
    /\ calls[c].pc = "in_loader"
    /\ Step(c, LoaderResult(calls[c], r))

\* the promise of the pack loader settles and the future is polled again
LoaderSettles(c, r) ==
    /\ calls[c].pc = "await_loader"
    /\ Running = {}
    /\ Step(c, LoaderSettled(calls[c], r))

\* the listener called by emit_event returns or throws: lib.rs 181
ListenerReturns(c, threw) ==
    /\ calls[c].pc = "in_listener"
    /\ Step(c, ListenerResult(calls[c], threw))

\* the launcher callback returns or throws: lib.rs 268-296
LauncherReturns(c, r) ==
    /\ calls[c].pc = "in_launcher"
    /\ Step(c, LauncherResult(calls[c], r))

\* the promise of the launcher callback settles and the future is polled again
LauncherSettles(c, r) ==
    /\ calls[c].pc = "await_launcher"
    /\ Running = {}
    /\ Step(c, LauncherSettled(calls[c], r))

\* ----------------------------------------------------------- specifications
\* An exported call made by JS: from the top level when no future is running,
\* or from inside the callback a future is calling.
Op(A) == nops < MaxOps /\ A /\ nops' = nops + 1 /\ UNCHANGED nedits
Edit(A) == nedits < MaxEdits /\ A /\ nedits' = nedits + 1 /\ UNCHANGED nops

Next ==
    \/ \E c \in Calls, id \in Ids : Launch(c, id)
    \/ \E c \in Calls : Poll(c)
    \/ \E c \in Calls, r \in {"value", "promise"} \cup FailVals : LoaderReturns(c, r)
    \/ \E c \in Calls, r \in {"resolve"} \cup FailVals : LoaderSettles(c, r)
    \/ \E c \in Calls, threw \in BOOLEAN : ListenerReturns(c, threw)
    \/ \E c \in Calls, r \in {"value", "promise"} \cup FailVals : LauncherReturns(c, r)
    \/ \E c \in Calls, r \in {"resolve"} \cup FailVals : LauncherSettles(c, r)
    \/ \E id \in Ids, url \in NewTargets, info \in NewInfos \cup {NONE} :
          Edit(add_version(id, url, info))
    \/ \E id \in Ids : Edit(remove_version(id))
    \/ \E cb \in JsValues : Op(set_launcher_callback(cb))
    \/ \E cb \in JsValues : Op(set_pack_loader(cb))
    \/ Op(clear_launcher_callback)
    \/ Op(clear_pack_loader)
    \/ \E ev \in Events, cb \in JsValues : Op(set_event_listener(ev, cb))
    \/ \E ev \in Events : Op(clear_event_listener(ev))

Spec == Init /\ [][Next]_vars

\* The registry alone, driven without a bound on the number of calls.
NextRegistry ==
    \/ \E id \in RegIds, url \in RegTargets, info \in NewInfos \cup {NONE} :
          add_version(id, url, info) /\ UNCHANGED <<nops, nedits>>
    \/ \E id \in RegIds : remove_version(id) /\ UNCHANGED <<nops, nedits>>

SpecRegistry == Init /\ [][NextRegistry]_vars

\* The event loop as a scheduler.  A queued future is polled (the microtask
\* queue is drained in order), a callback that was called returns or throws,
\* and a promise a callback returned settles.  The exported calls are drawn
\* from a smaller menu and share one budget of MaxOps calls.
OpFair(A) == nops + nedits < MaxOps /\ A /\ nops' = nops + 1 /\ UNCHANGED nedits
EditFair(A) == nops + nedits < MaxOps /\ A /\ nedits' = nedits + 1 /\ UNCHANGED nops

NextFair ==
    \/ \E c \in Calls, id \in Ids : Launch(c, id)
    \/ \E c \in Calls : Poll(c)
    \/ \E c \in Calls, r \in {"value", "promise", "e1"} : LoaderReturns(c, r)
    \/ \E c \in Calls, r \in {"resolve", "e1"} : LoaderSettles(c, r)
    \/ \E c \in Calls, threw \in BOOLEAN : ListenerReturns(c, threw)
    \/ \E c \in Calls, r \in {"value", "promise", "e1"} : LauncherReturns(c, r)
    \/ \E c \in Calls, r \in {"resolve", "e1"} : LauncherSettles(c, r)
    \/ \E id \in Ids, url \in NewTargets : EditFair(add_version(id, url, NONE))
    \/ \E id \in Ids : EditFair(remove_version(id))
    \/ \E cb \in {"f1", NotFn} : OpFair(set_launcher_callback(cb))
    \/ \E cb \in {"f1", NotFn} : OpFair(set_pack_loader(cb))
    \/ OpFair(clear_launcher_callback)
    \/ OpFair(clear_pack_loader)
    \/ \E ev \in Events, cb \in {"f1", NotFn} : OpFair(set_event_listener(ev, cb))
    \/ \E ev \in Events : OpFair(clear_event_listener(ev))

Fairness ==
    \A c \in Calls :
        /\ WF_vars(Poll(c))
        /\ WF_vars(\E r \in {"value", "promise", "e1"} : LoaderReturns(c, r))
        /\ WF_vars(\E r \in {"resolve", "e1"} : LoaderSettles(c, r))
        /\ WF_vars(\E threw \in BOOLEAN : ListenerReturns(c, threw))
        /\ WF_vars(\E r \in {"value", "promise", "e1"} : LauncherReturns(c, r))
        /\ WF_vars(\E r \in {"resolve", "e1"} : LauncherSettles(c, r))

SpecFair == Init /\ [][NextFair]_vars /\ Fairness

\* ============================================================== properties
Launched == {c \in Calls : calls[c].pc # "idle"}
Emitted(c, name) == {i \in DOMAIN calls[c].events : calls[c].events[i].name = name}
TargetOf(entry) == IF entry = NONE THEN "index.html" ELSE entry
LoaderOk(c) == calls[c].lres \in {"absent", "ok"}
LauncherOk(c) == calls[c].nres \in {"absent", "ok"}

\* C1: whatever the pack loader and the launcher callback do (absent, return,
\* throw, promise resolved, promise rejected), the promise of a launch call is
\* never rejected, and once settled it holds one object with status "ok" or
\* "error", the version passed to the call and the url the call resolved.
C1_NeverRejected ==
    \A c \in Calls :
        /\ calls[c].settled \in {"pending", "resolved"}
        /\ calls[c].settled = "pending" <=> calls[c].pc # "done"
        /\ calls[c].settled = "pending" => calls[c].outcome = NoObj
        /\ calls[c].settled = "resolved" =>
              /\ calls[c].outcome.obj \in {"result", "err_obj"}
              /\ calls[c].outcome.status \in {"ok", "error"}
              /\ calls[c].outcome.version = calls[c].ver
              /\ calls[c].outcome.url = calls[c].url

\* two settled calls: one whose pack loader promise was rejected, one whose
\* launcher callback threw
C1_Witness ==
    /\ MaxCalls >= 2
    /\ calls[1].settled = "resolved" /\ calls[1].lwait /\ calls[1].lres \in FailVals
    /\ calls[2].settled = "resolved" /\ ~calls[2].nwait /\ calls[2].nres \in FailVals

\* C2: when the pack loader invocation of a call fails (throw or rejected
\* promise), "pack_load_failed" is emitted exactly once with the failure value,
\* "engine_started" is never emitted, the launcher callback is never invoked,
\* and the call resolves to a status "error" object whose message is the
\* failure value.
C2_PackLoadFailure ==
    \A c \in Calls : calls[c].lres \in FailVals =>
        /\ Len(calls[c].loaded) = 1
        /\ Cardinality(Emitted(c, "pack_load_failed")) = 1
        /\ \A i \in Emitted(c, "pack_load_failed") : calls[c].events[i].e = calls[c].lres
        /\ Emitted(c, "engine_started") = {}
        /\ Emitted(c, "launcher_failed") = {}
        /\ calls[c].notified = <<>>
        /\ calls[c].pc \in {"in_listener", "done"}
        /\ calls[c].pc = "done" =>
              /\ calls[c].settled = "resolved"
              /\ calls[c].outcome.status = "error"
              /\ calls[c].outcome.message = calls[c].lres

\* a call ended by a rejected loader promise and one ended by a loader throw,
\* with a launcher callback registered that was not called
C2_Witness ==
    /\ MaxCalls >= 2
    /\ LAUNCH_CALLBACK # NONE
    /\ calls[1].pc = "done" /\ calls[1].lres \in FailVals /\ calls[1].lwait
    /\ calls[2].pc = "done" /\ calls[2].lres \in FailVals /\ ~calls[2].lwait

\* C3: when the pack-load stage succeeded or was skipped and the launcher
\* callback invocation fails, "engine_started" is emitted exactly once, then
\* "launcher_failed" exactly once with the failure value, and the call returns
\* a fresh error object (status "error", message the failure value, the call's
\* url and version), not the object that "engine_started" carried.
C3_LauncherFailure ==
    \A c \in Calls : calls[c].nres \in FailVals =>
        /\ LoaderOk(c)
        /\ Len(calls[c].notified) = 1
        /\ Len(calls[c].events) = 2
        /\ calls[c].events[1].name = "engine_started"
        /\ calls[c].events[2].name = "launcher_failed"
        /\ calls[c].events[2].e = calls[c].nres
        /\ calls[c].pc \in {"in_listener", "done"}
        /\ calls[c].pc = "done" =>
              /\ calls[c].settled = "resolved"
              /\ calls[c].outcome.obj # calls[c].events[1].obj.obj
              /\ calls[c].outcome.status = "error"
              /\ calls[c].outcome.message = calls[c].nres
              /\ calls[c].outcome.url = calls[c].url
              /\ calls[c].outcome.version = calls[c].ver

\* a call ended by a rejected launcher promise after a loader that succeeded
C3_Witness ==
    \E c \in Calls :
        /\ calls[c].pc = "done" /\ calls[c].nres \in FailVals /\ calls[c].nwait
        /\ calls[c].lres = "ok"

\* C4: two launch calls with different ids, however their stages interleave:
\* each call's outcome, its "engine_started" payload and the arguments given to
\* its callbacks carry its own id and the target of its own id.
OwnFields(c) ==
    LET own == <<calls[c].ver, TargetOf(calls[c].g_entry)>> IN
    /\ calls[c].settled = "resolved" =>
          <<calls[c].outcome.version, calls[c].outcome.url>> = own
    /\ \A i \in Emitted(c, "engine_started") :
          <<calls[c].events[i].obj.version, calls[c].events[i].obj.url>> = own
    /\ \A i \in DOMAIN calls[c].loaded :
          <<calls[c].loaded[i][2], calls[c].loaded[i][3]>> = own
    /\ \A i \in DOMAIN calls[c].notified :
          <<calls[c].notified[i][2], calls[c].notified[i][3]>> = own

C4_NoCrossContamination ==
    \A c1, c2 \in Launched :
        calls[c1].ver # calls[c2].ver => OwnFields(c1) /\ OwnFields(c2)

\* the second call has finished while the first, for another id and another
\* target, is still waiting for its launcher callback
C4_Witness ==
    /\ MaxCalls >= 2
    /\ calls[1].pc = "await_launcher" /\ calls[2].pc = "done"
    /\ calls[1].ver # calls[2].ver /\ calls[1].url # calls[2].url
    /\ calls[2].lwait

\* C5: the url of a call is read from the registry once; after that no step,
\* of the registry or of any call, changes the url the call uses: every object,
\* payload and callback argument of the call carries the url it resolved.
UrlsOf(rec) ==
    {rec.url}
    \cup (IF rec.settled = "resolved" THEN {rec.outcome.url} ELSE {})
    \cup (IF rec.result # NoObj THEN {rec.result.url} ELSE {})
    \cup (IF rec.err_obj # NoObj THEN {rec.err_obj.url} ELSE {})
    \cup {rec.events[i].obj.url : i \in {j \in DOMAIN rec.events : rec.events[j].obj # NoObj}}
    \cup {rec.notified[i][3] : i \in DOMAIN rec.notified}

C5_TargetReadOnce ==
    [][\A c \in Calls : calls[c].pc \notin {"idle", "spawned"} =>
           UrlsOf(calls'[c]) = {calls[c].url}]_vars

\* the registry entry of the id was changed while the call waited for its pack
\* loader: the launcher callback was given the url resolved before, not the
\* registry's target at the time it was called, and so was the caller
C5_Witness ==
    \E c \in Calls :
        /\ calls[c].pc = "done" /\ calls[c].nres = "ok" /\ calls[c].lwait
        /\ calls[c].notified[1][3] # TargetOf(calls[c].notified[1][4])
        /\ calls[c].notified[1][3] = TargetOf(calls[c].g_entry)
        /\ calls[c].outcome.url = calls[c].notified[1][3]

\* C6: a listener that throws changes nothing of the call that emitted the
\* event: the call is not rejected, runs the stages it would have run, and
\* returns the outcome its loader and launcher results determine.
ExpectedOutcome(rec) ==
    CASE rec.lres \in FailVals -> ErrObj(rec.lres, rec.url, rec.ver)
      [] rec.nres \in FailVals -> ErrObj(rec.nres, rec.url, rec.ver)
      [] OTHER -> ResultObj(internal_start_engine_stub(rec.ver)[1],
                            internal_start_engine_stub(rec.ver)[2], rec.url, rec.ver)

ExpectedEvents(rec) ==
    CASE rec.lres \in FailVals -> <<"pack_load_failed">>
      [] rec.nres \in FailVals -> <<"engine_started", "launcher_failed">>
      [] OTHER -> <<"engine_started">>

C6_ListenerFailureIsolated ==
    \A c \in Calls : calls[c].threw =>
        /\ calls[c].settled # "rejected"
        /\ calls[c].pc = "done" =>
              /\ calls[c].settled = "resolved"
              /\ calls[c].lres \in FailVals \/ (LoaderOk(c) /\ calls[c].nres # NONE)
              /\ calls[c].outcome = ExpectedOutcome(calls[c])
              /\ [i \in DOMAIN calls[c].events |-> calls[c].events[i].name]
                    = ExpectedEvents(calls[c])

\* a call whose "engine_started" listener threw went on to call the launcher
\* callback and completed
C6_Witness ==
    \E c \in Calls :
        /\ calls[c].threw /\ calls[c].pc = "done"
        /\ calls[c].nres = "ok" /\ Len(calls[c].notified) = 1

\* C7: a launch of an id that is not in the registry when its url is read, with
\* both slots empty, yields {status "error", message "unknown version: <id>",
\* url "index.html", version <id>}.
C7_UnknownVersionOutcome ==
    \A c \in Calls :
        (/\ calls[c].pc = "done"
         /\ calls[c].g_entry = NONE
         /\ calls[c].lres = "absent" /\ calls[c].nres = "absent")
        => /\ calls[c].outcome.status = "error"
           /\ calls[c].outcome.message = "unknown version: " \o calls[c].ver
           /\ calls[c].outcome.url = "index.html"
           /\ calls[c].outcome.version = calls[c].ver

\* C8: a call past the pack-load stage has emitted "engine_started" exactly
\* once, with the stage-4 outcome {status, message, url, version} as payload,
\* whether the status is "ok" or "error"; if the launcher stage does not fail
\* the call returns that same object, fields unchanged.
C8_EngineStartedOnce ==
    \A c \in Calls : LoaderOk(c) =>
        /\ Cardinality(Emitted(c, "engine_started")) = 1
        /\ calls[c].events[1].name = "engine_started"
        /\ calls[c].events[1].obj =
              [obj |-> "result",
               status |-> internal_start_engine_stub(calls[c].ver)[1],
               message |-> internal_start_engine_stub(calls[c].ver)[2],
               url |-> calls[c].url, version |-> calls[c].ver]
        /\ (calls[c].pc = "done" /\ LauncherOk(c)) =>
              calls[c].outcome = calls[c].events[1].obj

\* a completed call for an unknown version: its "engine_started" payload has
\* status "error" and is the outcome returned after the launcher callback
C8_Witness ==
    \E c \in Calls :
        /\ calls[c].pc = "done" /\ calls[c].lres = "ok" /\ calls[c].nres = "ok"
        /\ calls[c].events[1].obj.status = "error"
        /\ calls[c].outcome = calls[c].events[1].obj

\* C9 as stated: remove_version returns true exactly when an add_version of
\* the id preceded it with no remove_version of the id in between.
C9_RemoveTrueIffAdded ==
    lastOp.op = "remove_version" => (lastOp.ret = "true" <=> lastOp.prev = "add")

\* C9 amended: remove_version returns true exactly when the id was added and
\* not removed since, or is one of the two ids the registry starts with and was
\* not removed since the start.
C9_RemoveTrueIffPresent ==
    lastOp.op = "remove_version" =>
        (lastOp.ret = "true" <=>
            (lastOp.prev = "add" \/ (lastOp.prev = NONE /\ lastOp.id \in DefaultIds)))

\* the second of two remove_version calls on an id the registry started with
C9_Witness ==
    /\ lastOp.op = "remove_version" /\ lastOp.id \in DefaultIds
    /\ lastOp.prev = "remove" /\ lastOp.ret = "false"

\* C10: for every id that list_versions does not hold, get_launch_url returns
\* "index.html" and version_info returns "unknown version".
C10_AbsentIdFallbacks ==
    \A id \in RegIds \ list_versions :
        /\ get_launch_url(id) = "index.html"
        /\ version_info(id) = "unknown version"

\* an id that had a description and was removed
C10_Witness ==
    /\ "1.8" \notin list_versions
    /\ hist["1.8"] = "remove"
    /\ "bogus" \notin list_versions
    /\ hist["bogus"] = "remove"

\* C11: add_version(id, target) without a description, on an id that has a
\* description, sets the target of id to the new target and leaves the
\* description of id and the targets and descriptions of all other ids as
\* they were.
C11_TargetOverwrittenDescriptionKept ==
    [][(/\ lastOp'.op = "add_version"
        /\ lastOp'.info = NONE
        /\ VERSION_INFOS[lastOp'.id] # NONE)
       => /\ lastOp'.ret = "true"
          /\ VERSIONS'[lastOp'.id] = lastOp'.url
          /\ VERSION_INFOS' = VERSION_INFOS
          /\ \A k \in RegIds \ {lastOp'.id} : VERSIONS'[k] = VERSIONS[k]]_vars

\* "1.8" was given a target twice, the second time without a description: it
\* has the second target and still the description it started with
C11_Witness ==
    /\ lastOp.op = "add_version" /\ lastOp.id = "1.8" /\ lastOp.info = NONE
    /\ lastOp.prev = "add" /\ lastOp.url = "b.html"
    /\ VERSIONS["1.8"] = "b.html"
    /\ VERSION_INFOS["1.8"] = "Minecraft 1.8 engine (stub)"
    /\ VERSIONS["1.12"] = "minecraft_1.12.html"

\* C12: an event has at most one listener, the one the last
\* set_event_listener / clear_event_listener call for it asked for: every
\* emit_event of the event calls that listener and no other, and calls none
\* after clear_event_listener.
C12_LastRegistrationDispatched ==
    \A c \in Calls : \A i \in DOMAIN calls[c].events :
        calls[c].events[i].to = calls[c].events[i].want

\* C13: set_pack_loader, set_launcher_callback and set_event_listener given a
\* value that is no function return an error and leave PACK_LOADER,
\* LAUNCH_CALLBACK and EVENT_LISTENERS as they were; no launch call ever calls
\* anything but a function that was registered.
C13_NonFunctionRejected ==
    [][/\ (/\ nops' # nops
           /\ lastOp'.op \in {"set_pack_loader", "set_launcher_callback",
                              "set_event_listener"}
           /\ ~is_function(lastOp'.cb))
          => /\ lastOp'.ret = "err"
             /\ PACK_LOADER' = PACK_LOADER
             /\ LAUNCH_CALLBACK' = LAUNCH_CALLBACK
             /\ EVENT_LISTENERS' = EVENT_LISTENERS
       /\ \A c \in Calls :
             /\ \A i \in DOMAIN calls'[c].loaded : is_function(calls'[c].loaded[i][1])
             /\ \A i \in DOMAIN calls'[c].notified : is_function(calls'[c].notified[i][1])
             /\ \A i \in DOMAIN calls'[c].events :
                   calls'[c].events[i].to # NONE => is_function(calls'[c].events[i].to)]_vars

\* a pack loader was registered, then set_pack_loader was given a value that
\* is no function and failed, and the launch made after that called the pack
\* loader registered first
C13_Witness ==
    \E c \in Calls :
        /\ Len(calls[c].loaded) = 1
        /\ calls[c].loaded[1][1] \in Fns
        /\ calls[c].loaded[1][6]

\* C14: the stage a call is in, read off its future: Resolving until the url
\* is read, PackLoading while the pack loader or its promise is pending,
\* EngineStarting while the "engine_started" listener runs, Notifying while
\* the launcher callback or its promise is pending, Failed from the failure of
\* a callback on, Completed when the result object was returned.
Stage(rec) ==
    CASE rec.pc = "idle" -> "NotLaunched"
      [] rec.pc = "spawned" -> "Resolving"
      [] rec.pc \in {"in_loader", "await_loader"} -> "PackLoading"
      [] rec.pc \in {"in_launcher", "await_launcher"} -> "Notifying"
      [] rec.pc = "in_listener" /\ rec.event = "engine_started" -> "EngineStarting"
      [] rec.pc = "in_listener" /\ rec.event # "engine_started" -> "Failed"
      [] rec.pc = "done" /\ rec.outcome.obj = "result" -> "Completed"
      [] OTHER -> "Failed"

Rank(stage) ==
    CASE stage = "NotLaunched" -> 0
      [] stage = "Resolving" -> 1
      [] stage = "PackLoading" -> 2
      [] stage = "EngineStarting" -> 3
      [] stage = "Notifying" -> 4
      [] stage = "Completed" -> 5
      [] OTHER -> 6

\* C14: every step takes a call forward in the order Resolving, PackLoading,
\* EngineStarting, Notifying, Completed; Failed is entered only from
\* PackLoading or Notifying and is never left, and a failed call invokes and
\* emits nothing more; a call reaches Notifying or Completed only with the
\* engine started and "engine_started" emitted; the pack loader is called
\* before any event, the launcher callback only right after "engine_started".
C14_StageOrder ==
    [][\A c \in Calls :
          LET old == calls[c]
              new == calls'[c]
          IN  /\ Rank(Stage(new)) >= Rank(Stage(old))
              /\ Stage(old) = "NotLaunched" => Stage(new) \in {"NotLaunched", "Resolving"}
              /\ (Stage(new) = "Failed" /\ Stage(old) # "Failed")
                    => Stage(old) \in {"PackLoading", "Notifying"}
              /\ Stage(old) = "Failed"
                    => /\ Stage(new) = "Failed"
                       /\ new.loaded = old.loaded
                       /\ new.notified = old.notified
                       /\ new.events = old.events
              /\ Stage(new) \in {"EngineStarting", "Notifying", "Completed"}
                    => /\ new.result # NoObj
                       /\ new.events # <<>>
                       /\ new.events[Len(new.events)].name = "engine_started"
              /\ Len(new.loaded) > Len(old.loaded)
                    => /\ Stage(old) = "Resolving"
                       /\ new.events = <<>> /\ new.notified = <<>>
                       /\ new.result = NoObj
              /\ Len(new.notified) > Len(old.notified)
                    => /\ Stage(old) \in {"Resolving", "PackLoading", "EngineStarting"}
                       /\ new.events # <<>>
                       /\ new.events[Len(new.events)].name = "engine_started"
                       /\ new.result # NoObj]_vars

\* one call went through every stage, waiting for the promise of its pack
\* loader and of its launcher callback, and completed; another failed in its
\* launcher callback
C14_Witness ==
    /\ \E c \in Calls :
          /\ Stage(calls[c]) = "Completed"
          /\ calls[c].lwait /\ calls[c].nwait
          /\ Len(calls[c].loaded) = 1 /\ Len(calls[c].notified) = 1
          /\ Len(calls[c].events) = 1
    /\ \E c \in Calls :
          /\ Stage(calls[c]) = "Failed"
          /\ calls[c].pc = "done"
          /\ calls[c].nres \in FailVals

\* C15: with the event loop polling every queued future, every callback that
\* was called returning, and every promise a callback returned settling, each
\* launch call ends with its promise resolved to an outcome object, whatever
\* exported calls and other launch calls happen meanwhile.
C15_EveryLaunchFinishes ==
    \A c \in Calls :
        (calls[c].pc # "idle") ~>
            (/\ calls[c].pc = "done"
             /\ calls[c].settled = "resolved"
             /\ calls[c].outcome # NoObj)

\* both calls have finished; one of them waited for its pack loader, and while
\* it waited the pack loader was cleared and the budget of exported calls spent
C15_Witness ==
    /\ \A c \in Calls : calls[c].pc = "done" /\ calls[c].settled = "resolved"
    /\ nops + nedits = MaxOps
    /\ PACK_LOADER = NONE
    /\ \E c \in Calls : calls[c].lwait /\ calls[c].lres = "e1"

\* C16 as stated: a launch call yields only while it awaits a promise that its
\* pack loader or launcher callback returned: while a call is in flight and
\* not awaiting such a promise, no stage of another call runs and the
\* registry, the slots and the listeners do not change.
InFlight(c) == calls[c].pc \notin {"idle", "done"}
Awaiting(c) == calls[c].pc \in {"await_loader", "await_launcher"}

C16_YieldsOnlyWhileAwaiting ==
    [][\A c \in Calls : (InFlight(c) /\ ~Awaiting(c)) =>
          /\ registry' = registry
          /\ slots' = slots
          /\ EVENT_LISTENERS' = EVENT_LISTENERS
          /\ \A d \in Calls \ {c} : InFlight(d) => calls'[d] = calls[d]]_vars

\* C16 amended: a launch call yields at two kinds of points: between the
\* launch call and the first poll of its future, and while it awaits a promise
\* its pack loader or launcher callback returned (which it does only after
\* that callback returned one).  From one such point to the next the future
\* runs alone: at most one call is inside a callback, no stage of another call
\* runs meanwhile, and a call with no callback to run (both slots empty, no
\* "engine_started" listener) goes from its first poll to its outcome in one
\* uninterrupted run.
C16_YieldPoints ==
    [][/\ Cardinality(Running) <= 1
       /\ \A c \in Calls :
             /\ c \in Running =>
                   \A d \in Calls \ {c} : InFlight(d) => calls'[d] = calls[d]
             /\ (InFlight(c) /\ c \notin Running) =>
                   \/ calls[c].pc = "spawned" /\ calls[c].url = NONE
                   \/ /\ calls[c].pc = "await_loader"
                      /\ calls[c].lwait /\ Len(calls[c].loaded) = 1
                   \/ /\ calls[c].pc = "await_launcher"
                      /\ calls[c].nwait /\ Len(calls[c].notified) = 1
             /\ (/\ calls[c].pc = "spawned" /\ calls'[c] # calls[c]
                 /\ PACK_LOADER = NONE /\ LAUNCH_CALLBACK = NONE
                 /\ EVENT_LISTENERS["engine_started"] = NONE)
                => /\ calls'[c].pc = "done"
                   /\ calls'[c].url = get_launch_url(calls[c].ver)
                   /\ Len(calls'[c].events) = 1]_vars

\* the first call is inside its launcher callback while the second, polled in
\* between, waits for the promise of its pack loader; and a call whose id was
\* removed from the registry before its first poll
C16_Witness ==
    /\ MaxCalls >= 2
    /\ calls[1].pc = "in_launcher" /\ calls[1].lwait
    /\ calls[2].pc = "await_loader"
    /\ \E c \in Calls : calls[c].ver \in DefaultIds /\ calls[c].g_entry = NONE

\* C18: LAUNCH_CALLBACK is read when the call reaches the launcher stage: the
\* function called is the one in the slot at that step, and the stage is
\* skipped only if the slot is empty at that step, whatever the slot held
\* when the call was launched or while it waited for its pack loader; and
\* each emit_event calls the listener that EVENT_LISTENERS holds for the event
\* at that step.
C18_SlotReadAtNotify ==
    [][\A c \in Calls :
          LET old == calls[c]
              new == calls'[c]
          IN  /\ Len(new.notified) > Len(old.notified)
                    => /\ LAUNCH_CALLBACK # NONE
                       /\ new.notified[Len(new.notified)][1] = LAUNCH_CALLBACK
              /\ (old.nres = NONE /\ new.nres = "absent")
                    => /\ LAUNCH_CALLBACK = NONE
                       /\ new.notified = <<>>
              /\ \A i \in DOMAIN new.events \ DOMAIN old.events :
                    new.events[i].to = EVENT_LISTENERS[new.events[i].name]]_vars

\* two calls waited for the promise of their pack loader with no launcher
\* callback registered; one reached the launcher stage before a launcher
\* callback was registered and called none, the other after and called it
C18_Witness ==
    /\ \E c \in Calls :
          /\ calls[c].lwait /\ calls[c].lres = "ok"
          /\ calls[c].loaded[1][5] = NONE
          /\ Len(calls[c].notified) = 1
          /\ calls[c].notified[1][1] \in Fns
          /\ calls[c].events[1].to = NONE
    /\ \E c \in Calls :
          /\ calls[c].lwait /\ calls[c].lres = "ok"
          /\ calls[c].loaded[1][5] = NONE
          /\ calls[c].nres = "absent"

\* C17: no exported call made by a callback that a launch call is running
\* (pack loader, launcher callback or listener) finds a RefCell borrowed: none
\* ends in a borrow panic.
C17_NoBorrowConflict ==
    lastOp.ret # "panic"

\* C19: after any sequence of add_version and remove_version calls, every id
\* with an entry in VERSION_INFOS has an entry in VERSIONS, so version_info
\* gives a stored description only for ids that list_versions holds.
C19_InfosWithinVersions ==
    /\ {k \in RegIds : VERSION_INFOS[k] # NONE} \subseteq list_versions
    /\ \A k \in RegIds :
          version_info(k) # "unknown version" =>
              k \in list_versions /\ version_info(k) = VERSION_INFOS[k]

\* a described id was removed and added again without a description, next to
\* an id that was added with one and one that was removed: the ids with a
\* description are a proper subset of the ids with a target
C19_Witness ==
    /\ hist["1.8"] = "add" /\ VERSIONS["1.8"] # NONE /\ VERSION_INFOS["1.8"] = NONE
    /\ hist["bogus"] = "add" /\ VERSION_INFOS["bogus"] = "custom info"
    /\ hist["1.12"] = "remove" /\ VERSIONS["1.12"] = NONE

====
